---- MODULE Spec2Model ----
(***************************************************************************)
(* Model of the EPD7in5 (HD) e-paper driver, src/src/epd7in5_hd/mod.rs.    *)
(*                                                                         *)
(* Every driver function is a straight-line body of bus instructions       *)
(* (reset, busy-wait, command, data, repeat-fill, call).  A call stack     *)
(* executes one instruction per step; every transport write may fail and   *)
(* the `?` operator decides whether the body goes on.  The bus trace of    *)
(* the most recent transferring operation, the values last written to the  *)
(* controller's configuration registers and the driver's own field         *)
(* (color) are the state.                                                  *)
(***************************************************************************)
EXTENDS Integers, Sequences, FiniteSets, TLC

(* ---------------- bounds of the model ---------------- *)
MaxBufLen == 2
MaxInitRuns == 2

\* caller buffers: the prefixes of a pattern of pairwise different bytes
Pattern == <<90, 255, 0, 165, 60, 195>>
Bufs == {SubSeq(Pattern, 1, n) : n \in 0..MaxBufLen}
SpiErrors == {"E1", "E2"}
Regions == {0, 1}
RefreshRates == {"None", "FULL", "QUICK"}
Colors == {"Black", "White"}

(* ---------------- program constants ---------------- *)
WIDTH == 880
HEIGHT == 528
DEFAULT_BACKGROUND_COLOR == "Black"
IS_BUSY_LOW_active_low == TRUE
IS_BUSY_LOW == FALSE

OK == "Ok"

VARIABLES
  constructed,  \* a driver instance exists (new returned Ok)
  color,        \* EPD7in5.color
  stack,        \* call stack of the running operation, frames [fn, pc]
  op,           \* the public operation called most recently
  buffer,       \* its buffer argument
  args,         \* its other arguments
  result,       \* its return value, [tag, val]
  trace,        \* bus events of the most recent transferring operation
  regs,         \* payload last written to each configuration register
  asleep,       \* DEEP_SLEEP was sent and no hardware reset since
  busyPin,      \* raw level of the BUSY input pin
  lastInit,     \* record of the most recent successful init run
  prevInit,     \* record of the successful init run before it
  initRuns,     \* successful init runs in succession (capped)
  framePair     \* record of update_frame(buf) directly followed by
                \* display_frame(), both successful

vars == <<constructed, color, stack, op, buffer, args, result, trace, regs,
          asleep, busyPin, lastInit, prevInit, initRuns, framePair>>

(* ---------------- instructions and bus events ---------------- *)
Instr(k, c, d, n) == [k |-> k, c |-> c, d |-> d, n |-> n]
Ev(k, c, d, n, r) == [k |-> k, c |-> c, d |-> d, n |-> n, r |-> r]

\* Bus Interface primitives
interface_reset(duration) == <<Instr("reset", "-", <<>>, duration)>>
interface_cmd(c) == <<Instr("cmd", c, <<>>, 0)>>
interface_data(c, d) == <<Instr("data", c, d, 0)>>
interface_cmd_with_data(c, d) == interface_cmd(c) \o interface_data(c, d)
interface_data_x_times(v, n) == <<Instr("fill", "-", <<v>>, n)>>
interface_is_busy(is_busy_low, pin) ==
  (is_busy_low /\ pin = "low") \/ (~is_busy_low /\ pin = "high")

\* private helpers of the driver
command(c) == interface_cmd(c)
cmd_with_data(c, d) == interface_cmd_with_data(c, d)
wait_until_idle == <<Instr("wait", "-", <<>>, 0)>>
WaitPasses_without_poll(pin) == TRUE

WaitPasses(pin) == ~interface_is_busy(IS_BUSY_LOW, pin)
Call(fn) == <<Instr("call", fn, <<>>, 0)>>

is_busy == interface_is_busy(IS_BUSY_LOW, busyPin)

(* ---------------- bodies of the driver's functions ---------------- *)
\* init, lines 79-80: the RAM address windows
init_ram_window_x_off_by_one ==
  cmd_with_data("SET_RAM_X_START_END", <<0, 0, 112, 3>>)
  \o cmd_with_data("SET_RAM_Y_START_END", <<175, 2, 0, 0>>)

init_ram_window ==
  cmd_with_data("SET_RAM_X_START_END", <<0, 0, 111, 3>>)
  \o cmd_with_data("SET_RAM_Y_START_END", <<175, 2, 0, 0>>)

\* init, lines 86-89: update mode and activation
init_activation_mask_omitted ==
  command("MASTER_ACTIVATION")
  \o wait_until_idle

init_activation_full_refresh ==
  cmd_with_data("DISPLAY_UPDATE_CONTROL_2", <<247>>)
  \o command("MASTER_ACTIVATION")
  \o wait_until_idle

init_activation ==
  cmd_with_data("DISPLAY_UPDATE_CONTROL_2", <<177>>)
  \o command("MASTER_ACTIVATION")
  \o wait_until_idle

\* init, lines 91-92: the RAM address counters
init_counters_y_at_window_start ==
  cmd_with_data("SET_RAM_X_AC", <<0, 0>>)
  \o cmd_with_data("SET_RAM_Y_AC", <<175, 2>>)

init_counters ==
  cmd_with_data("SET_RAM_X_AC", <<0, 0>>)
  \o cmd_with_data("SET_RAM_Y_AC", <<0, 0>>)

init ==
  interface_reset(2)
  \o wait_until_idle
  \o command("SW_RESET")
  \o wait_until_idle
  \o cmd_with_data("AUTO_WRITE_RED", <<247>>)
  \o wait_until_idle
  \o cmd_with_data("AUTO_WRITE_BW", <<247>>)
  \o wait_until_idle
  \o cmd_with_data("SOFT_START", <<174, 199, 195, 192, 64>>)
  \o cmd_with_data("DRIVER_OUTPUT_CONTROL", <<175, 2, 1>>)
  \o cmd_with_data("DATA_ENTRY", <<1>>)
  \o init_ram_window
  \o cmd_with_data("VBD_CONTROL", <<5>>)
  \o cmd_with_data("TEMPERATURE_SENSOR_CONTROL", <<128>>)
  \o init_activation
  \o init_counters

new == Call("init")

wake_up == Call("init")

sleep_without_wait ==
  cmd_with_data("DEEP_SLEEP", <<1>>)

sleep ==
  wait_until_idle
  \o cmd_with_data("DEEP_SLEEP", <<1>>)

update_frame_resetting(buf) ==
  interface_reset(2)
  \o wait_until_idle
  \o cmd_with_data("SET_RAM_Y_AC", <<0, 0>>)
  \o cmd_with_data("WRITE_RAM_BW", buf)
  \o cmd_with_data("DISPLAY_UPDATE_CONTROL_2", <<247>>)

update_frame(buf) ==
  wait_until_idle
  \o cmd_with_data("SET_RAM_Y_AC", <<0, 0>>)
  \o cmd_with_data("WRITE_RAM_BW", buf)
  \o cmd_with_data("DISPLAY_UPDATE_CONTROL_2", <<247>>)

display_frame_without_wait ==
  command("MASTER_ACTIVATION")

display_frame ==
  command("MASTER_ACTIVATION")
  \o wait_until_idle

update_and_display_frame_reordered(buf) ==
  Call("display_frame")
  \o Call("update_frame")

update_and_display_frame(buf) ==
  Call("update_frame")
  \o Call("display_frame")

\* WIDTH * HEIGHT = 464640 fits a u32, the product does not wrap
pixel_count == (WIDTH * HEIGHT) \div 8

\* arrays that live in clear_frame's frame for the whole call
clear_frame_locals == {[name |-> "blank_frame", val |-> 255, len |-> pixel_count]}

clear_frame ==
  wait_until_idle
  \o cmd_with_data("SET_RAM_Y_AC", <<0, 0>>)
  \o command("WRITE_RAM_BW") \o interface_data_x_times(255, pixel_count)
  \o command("WRITE_RAM_RED") \o interface_data_x_times(255, pixel_count)
  \o cmd_with_data("DISPLAY_UPDATE_CONTROL_2", <<247>>)
  \o command("MASTER_ACTIVATION")
  \o wait_until_idle

Body(fn, buf) ==
  CASE fn = "init" -> init
    [] fn = "new" -> new
    [] fn = "wake_up" -> wake_up
    [] fn = "sleep" -> sleep
    [] fn = "update_frame" -> update_frame(buf)
    [] fn = "display_frame" -> display_frame
    [] fn = "update_and_display_frame" -> update_and_display_frame(buf)
    [] fn = "clear_frame" -> clear_frame

Locals(fn) == IF fn = "clear_frame" THEN clear_frame_locals ELSE {}

\* the `?` operator applied to the result r of a transport write
QuestionMark_ignored(r) == [continue |-> TRUE, ret |-> r]

QuestionMark(r) == [continue |-> r = OK, ret |-> r]

\* the operations this controller variant does not implement
update_partial_frame_empty_ok(buf, x, y, width, height) ==
  IF width = 0 \/ height = 0
    THEN [res |-> [tag |-> "Ok", val |-> "-"], out |-> <<>>]
    ELSE [res |-> [tag |-> "Panic", val |-> "unimplemented"], out |-> <<>>]

update_partial_frame(buf, x, y, width, height) ==
  [res |-> [tag |-> "Panic", val |-> "unimplemented"], out |-> <<>>]

set_lut(refresh_rate) ==
  [res |-> [tag |-> "Panic", val |-> "unimplemented"], out |-> <<>>]

\* accessors
set_background_color_ignored(c) == DEFAULT_BACKGROUND_COLOR

set_background_color(c) == c
background_color == color
width_swapped == HEIGHT

width == WIDTH
height == HEIGHT

(* ---------------- state ---------------- *)
RegCmds == {"SET_RAM_X_START_END", "SET_RAM_Y_START_END", "SET_RAM_X_AC",
            "SET_RAM_Y_AC", "DATA_ENTRY", "DISPLAY_UPDATE_CONTROL_2"}
NoArgs == [x |-> 0, y |-> 0, w |-> 0, h |-> 0, rate |-> "-", color |-> "-",
           pin |-> "-", num |-> 0]
NoPair == [stage |-> "none", buf |-> <<>>, trace |-> <<>>]
NoRun == [done |-> FALSE, buf |-> <<>>, trace |-> <<>>,
          regs |-> [c \in RegCmds |-> <<>>]]
Res(tag, val) == [tag |-> tag, val |-> val]

Init ==
  /\ constructed = FALSE
  /\ color = DEFAULT_BACKGROUND_COLOR
  /\ stack = <<>>
  /\ op = "none"
  /\ buffer = <<>>
  /\ args = NoArgs
  /\ result = Res("None", "-")
  /\ trace = <<>>
  /\ regs = [c \in RegCmds |-> <<>>]
  /\ asleep = FALSE
  /\ busyPin \in {"high", "low"}
  /\ lastInit = NoRun
  /\ prevInit = NoRun
  /\ initRuns = 0
  /\ framePair = NoPair

Idle == stack = <<>> /\ result.tag # "Panic"
Running == stack # <<>>
Top == stack[Len(stack)]
TopBody == Body(Top.fn, buffer)
AtInstr == Running /\ Top.pc <= Len(TopBody)
Cur == TopBody[Top.pc]
Advanced == [stack EXCEPT ![Len(stack)].pc = @ + 1]
History == <<lastInit, prevInit, initRuns, framePair>>

(* ---------------- calls of the public operations ---------------- *)
Begin(name, buf) ==
  /\ stack' = <<[fn |-> name, pc |-> 1]>>
  /\ op' = name
  /\ buffer' = buf
  /\ args' = NoArgs
  /\ result' = Res("Pending", "-")
  /\ trace' = <<>>
  /\ initRuns' = IF name \in {"new", "wake_up"} THEN initRuns ELSE 0
  /\ framePair' = IF \/ name = "display_frame" /\ framePair.stage = "uf"
                     \/ /\ name = "update_and_display_frame"
                        /\ framePair.stage = "ufdf"
                   THEN framePair ELSE NoPair
  /\ UNCHANGED <<regs, asleep, busyPin, lastInit, prevInit>>

CallNew ==
  /\ Idle /\ ~constructed
  /\ color' = DEFAULT_BACKGROUND_COLOR
  /\ Begin("new", <<>>)
  /\ UNCHANGED constructed

CallWakeUp ==
  /\ Idle /\ constructed
  /\ Begin("wake_up", <<>>)
  /\ UNCHANGED <<constructed, color>>

CallSleep ==
  /\ Idle /\ constructed
  /\ Begin("sleep", <<>>)
  /\ UNCHANGED <<constructed, color>>

CallUpdateFrame ==
  /\ Idle /\ constructed
  /\ \E b \in Bufs : Begin("update_frame", b)
  /\ UNCHANGED <<constructed, color>>

CallDisplayFrame ==
  /\ Idle /\ constructed
  /\ Begin("display_frame", <<>>)
  /\ UNCHANGED <<constructed, color>>

CallUpdateAndDisplayFrame ==
  /\ Idle /\ constructed
  /\ \E b \in Bufs : Begin("update_and_display_frame", b)
  /\ UNCHANGED <<constructed, color>>

CallClearFrame_resets_color ==
  /\ Idle /\ constructed
  /\ Begin("clear_frame", <<>>)
  /\ color' = DEFAULT_BACKGROUND_COLOR
  /\ UNCHANGED constructed

CallClearFrame ==
  /\ Idle /\ constructed
  /\ Begin("clear_frame", <<>>)
  /\ UNCHANGED <<constructed, color>>

CallUpdatePartialFrame ==
  /\ Idle /\ constructed
  /\ \E b \in Bufs, x \in Regions, y \in Regions, w \in Regions, h \in Regions :
       LET o == update_partial_frame(b, x, y, w, h) IN
         /\ op' = "update_partial_frame"
         /\ buffer' = b
         /\ args' = [NoArgs EXCEPT !.x = x, !.y = y, !.w = w, !.h = h]
         /\ result' = o.res
         /\ trace' = o.out
  /\ UNCHANGED <<constructed, color, stack, regs, asleep, busyPin, History>>

CallSetLut ==
  /\ Idle /\ constructed
  /\ \E r \in RefreshRates :
       LET o == set_lut(r) IN
         /\ op' = "set_lut"
         /\ args' = [NoArgs EXCEPT !.rate = r]
         /\ result' = o.res
         /\ trace' = o.out
  /\ buffer' = <<>>
  /\ UNCHANGED <<constructed, color, stack, regs, asleep, busyPin, History>>

CallSetBackgroundColor ==
  /\ Idle /\ constructed
  /\ \E c \in Colors :
       /\ color' = set_background_color(c)
       /\ args' = [NoArgs EXCEPT !.color = c]
  /\ op' = "set_background_color"
  /\ result' = Res("Unit", "-")
  /\ buffer' = <<>>
  /\ trace' = <<>>
  /\ UNCHANGED <<constructed, stack, regs, asleep, busyPin, History>>

CallBackgroundColor ==
  /\ Idle /\ constructed
  /\ op' = "background_color"
  /\ result' = Res("Val", background_color)
  /\ buffer' = <<>>
  /\ trace' = <<>>
  /\ UNCHANGED <<constructed, color, args, stack, regs, asleep, busyPin,
                 History>>

CallIsBusy ==
  /\ Idle /\ constructed
  /\ op' = "is_busy"
  /\ result' = Res("Val", IF is_busy THEN "true" ELSE "false")
  /\ args' = [NoArgs EXCEPT !.pin = busyPin]
  /\ buffer' = <<>>
  /\ trace' = <<>>
  /\ UNCHANGED <<constructed, color, stack, regs, asleep, busyPin, History>>

CallWidth ==
  /\ Idle /\ constructed
  /\ op' = "width"
  /\ result' = Res("Num", "-")
  /\ args' = [NoArgs EXCEPT !.num = width]
  /\ buffer' = <<>>
  /\ trace' = <<>>
  /\ UNCHANGED <<constructed, color, stack, regs, asleep, busyPin, History>>

CallHeight ==
  /\ Idle /\ constructed
  /\ op' = "height"
  /\ result' = Res("Num", "-")
  /\ args' = [NoArgs EXCEPT !.num = height]
  /\ buffer' = <<>>
  /\ trace' = <<>>
  /\ UNCHANGED <<constructed, color, stack, regs, asleep, busyPin, History>>

(* ---------------- steps of a running operation ---------------- *)
StepReset ==
  /\ AtInstr /\ Cur.k = "reset"
  /\ trace' = Append(trace, Ev("reset", "-", <<>>, Cur.n, OK))
  /\ asleep' = FALSE
  /\ stack' = Advanced
  /\ UNCHANGED <<constructed, color, op, buffer, args, result, regs, busyPin,
                 History>>

StepWait ==
  /\ AtInstr /\ Cur.k = "wait"
  /\ WaitPasses(busyPin)
  /\ trace' = Append(trace, Ev("wait", "-", <<>>, 0, OK))
  /\ stack' = Advanced
  /\ UNCHANGED <<constructed, color, op, buffer, args, result, regs, asleep,
                 busyPin, History>>

StepWriteOk ==
  /\ AtInstr /\ Cur.k \in {"cmd", "data", "fill"}
  /\ trace' = Append(trace, Ev(Cur.k, Cur.c, Cur.d, Cur.n, OK))
  /\ regs' = IF Cur.k = "data" /\ Cur.c \in RegCmds
               THEN [regs EXCEPT ![Cur.c] = Cur.d] ELSE regs
  /\ asleep' = IF Cur.k = "data" /\ Cur.c = "DEEP_SLEEP" THEN TRUE ELSE asleep
  /\ stack' = Advanced
  /\ UNCHANGED <<constructed, color, op, buffer, args, result, busyPin,
                 History>>

\* bytes a repeat-fill of n bytes had written when one of its writes failed
FillFailPoints(n) == {0, n - 1}

StepWriteFail ==
  /\ AtInstr /\ Cur.k \in {"cmd", "data", "fill"}
  /\ \E e \in SpiErrors :
     \E j \in (IF Cur.k = "fill" THEN FillFailPoints(Cur.n) ELSE {0}) :
       /\ trace' = Append(trace, Ev(Cur.k, Cur.c, Cur.d, j, e))
       /\ IF QuestionMark(e).continue
            THEN /\ stack' = Advanced
                 /\ result' = result
            ELSE /\ stack' = <<>>
                 /\ result' = Res("Err", QuestionMark(e).ret)
  /\ initRuns' = 0
  /\ framePair' = NoPair
  /\ UNCHANGED <<constructed, color, op, buffer, args, regs, asleep, busyPin,
                 lastInit, prevInit>>

StepCall ==
  /\ AtInstr /\ Cur.k = "call"
  /\ stack' = Append(Advanced, [fn |-> Cur.c, pc |-> 1])
  /\ UNCHANGED <<constructed, color, op, buffer, args, result, trace, regs,
                 asleep, busyPin, History>>

StepReturn ==
  /\ Running /\ Top.pc > Len(TopBody)
  /\ stack' = SubSeq(stack, 1, Len(stack) - 1)
  /\ IF Len(stack) = 1
       THEN /\ result' = Res("Ok", "-")
            /\ constructed' = (constructed \/ op = "new")
            /\ IF op \in {"new", "wake_up"}
                 THEN /\ lastInit' = [done |-> TRUE, buf |-> <<>>,
                                      trace |-> trace, regs |-> regs]
                      /\ prevInit' = lastInit
                      /\ initRuns' = IF initRuns < MaxInitRuns
                                       THEN initRuns + 1 ELSE initRuns
                 ELSE UNCHANGED <<lastInit, prevInit, initRuns>>
            /\ framePair' =
                 CASE op = "update_frame" ->
                        [stage |-> "uf", buf |-> buffer, trace |-> trace]
                   [] op = "display_frame" /\ framePair.stage = "uf" ->
                        [stage |-> "ufdf", buf |-> framePair.buf,
                         trace |-> framePair.trace \o trace]
                   [] OTHER -> framePair
       ELSE UNCHANGED <<result, constructed, History>>
  /\ UNCHANGED <<color, op, buffer, args, trace, regs, asleep, busyPin>>

(* ---------------- the panel's BUSY output ---------------- *)
PinHigh ==
  /\ busyPin = "low"
  /\ busyPin' = "high"
  /\ UNCHANGED <<constructed, color, stack, op, buffer, args, result, trace,
                 regs, asleep, History>>

PinLow ==
  /\ busyPin = "high"
  /\ busyPin' = "low"
  /\ UNCHANGED <<constructed, color, stack, op, buffer, args, result, trace,
                 regs, asleep, History>>

Next ==
  \/ CallNew
  \/ CallWakeUp
  \/ CallSleep
  \/ CallUpdateFrame
  \/ CallDisplayFrame
  \/ CallUpdateAndDisplayFrame
  \/ CallClearFrame
  \/ CallUpdatePartialFrame
  \/ CallSetLut
  \/ CallSetBackgroundColor
  \/ CallBackgroundColor
  \/ CallIsBusy
  \/ CallWidth
  \/ CallHeight
  \/ StepReset
  \/ StepWait
  \/ StepWriteOk
  \/ StepWriteFail
  \/ StepCall
  \/ StepReturn
  \/ PinHigh
  \/ PinLow

Spec == Init /\ [][Next]_vars

\* The driver is a blocking, single-threaded program: a running call takes
\* its next step whenever it can.  The panel ends every busy period, and the
\* tight poll of wait_until_idle sees the idle level when it recurs.
Fairness ==
  /\ WF_vars(StepReset)
  /\ WF_vars(StepWriteOk \/ StepWriteFail)
  /\ WF_vars(StepCall)
  /\ WF_vars(StepReturn)
  /\ WF_vars(PinLow)
  /\ SF_vars(StepWait)

LiveSpec == Spec /\ Fairness

(* ======================= claims ======================= *)
LastEv == trace[Len(trace)]
Finished(name, tag) == stack = <<>> /\ op = name /\ result.tag = tag
Appends(k) ==
  /\ Len(trace') = Len(trace) + 1
  /\ trace'[Len(trace')].k = k
IssuesMasterActivation ==
  /\ Running
  /\ Len(trace') = Len(trace) + 1
  /\ trace'[Len(trace')] = Ev("cmd", "MASTER_ACTIVATION", <<>>, 0, OK)
LE16(lo, hi) == lo + 256 * hi
Window(p) == [start |-> LE16(p[1], p[2]), end |-> LE16(p[3], p[4])]

\* C1: update_and_display_frame(buf) emits exactly the recorded bus trace of
\* update_frame(buf) followed by display_frame(); when it fails before the
\* activation command, no MASTER_ACTIVATION is on the bus.
C1_UpdateAndDisplayIsComposition ==
  /\ (/\ Finished("update_and_display_frame", "Ok")
      /\ framePair.stage = "ufdf"
      /\ framePair.buf = buffer) => trace = framePair.trace
  /\ (/\ Finished("update_and_display_frame", "Err")
      /\ LastEv.c # "MASTER_ACTIVATION")
       => \A i \in 1..Len(trace) : trace[i].c # "MASTER_ACTIVATION"

C1_Witness ==
  /\ Finished("update_and_display_frame", "Ok")
  /\ framePair.stage = "ufdf"
  /\ framePair.buf = buffer
  /\ Len(buffer) > 0

\* C2: every successful init run emits the same bus trace and leaves the same
\* RAM windows, RAM counters, data-entry mode and update-control-2 mask as
\* the successful init run before it, whatever state it started from.
C2_InitIdempotent ==
  prevInit.done =>
    /\ lastInit.trace = prevInit.trace
    /\ \A c \in RegCmds : lastInit.regs[c] = prevInit.regs[c]

C2_Witness ==
  /\ Finished("wake_up", "Ok")
  /\ initRuns >= 2
  /\ prevInit.done
  /\ lastInit.regs["DISPLAY_UPDATE_CONTROL_2"] = <<177>>

\* C3 as stated: while the controller sleeps (DEEP_SLEEP sent, no reset since)
\* no command or data byte is put on the bus.
C3_NoTransferWhileAsleep ==
  [][asleep => ~(Appends("cmd") \/ Appends("data") \/ Appends("fill"))]_vars

\* C3 amended: the sleeping condition ends only inside wake_up, the one
\* operation that pulses the hardware reset.
C3_SleepEndsOnlyInWakeUp ==
  [][(asleep /\ ~asleep') => (op = "wake_up" /\ Appends("reset"))]_vars

C3_Witness ==
  /\ asleep
  /\ Finished("clear_frame", "Ok")

\* C4: a failed transport write is the last bus event of its operation, the
\* operation has returned exactly that error, and a failed new leaves no
\* driver instance.
C4_WriteFailureAborts ==
  /\ \A i \in 1..Len(trace) :
       trace[i].r # OK =>
         /\ i = Len(trace)
         /\ stack = <<>>
         /\ result = Res("Err", trace[i].r)
  /\ result.tag = "Err" => (trace # <<>> /\ LastEv.r = result.val)
  /\ Finished("new", "Err") => ~constructed

C4_Witness ==
  /\ Finished("clear_frame", "Err")
  /\ LastEv.k = "fill"
  /\ LastEv.n = pixel_count - 1
  /\ result.val = "E2"

\* C5: every call of update_partial_frame or set_lut panics, puts nothing on
\* the bus and leaves the background colour and the registers alone.
C5_UnsupportedAlwaysPanics ==
  [][(/\ op' \in {"update_partial_frame", "set_lut"}
      /\ <<op, args, buffer, result>>' # <<op, args, buffer, result>>)
       => /\ result'.tag = "Panic"
          /\ trace' = <<>>
          /\ color' = color
          /\ regs' = regs]_vars

C5_Witness ==
  /\ op = "update_partial_frame"
  /\ result.tag = "Panic"
  /\ args.w = 0 /\ args.h = 0
  /\ buffer = <<>>
  /\ asleep
  /\ color = "White"

C7_OnlyDisplayFrameRepaints ==
  [][(IssuesMasterActivation /\ regs["DISPLAY_UPDATE_CONTROL_2"] = <<247>>)
       => Top.fn = "display_frame"]_vars

\* C7 amended: a MASTER_ACTIVATION under the full-refresh mask 0xF7 is issued
\* only by display_frame or clear_frame.
C7_OnlyDisplayOrClearRepaints ==
  [][(IssuesMasterActivation /\ regs["DISPLAY_UPDATE_CONTROL_2"] = <<247>>)
       => Top.fn \in {"display_frame", "clear_frame"}]_vars

C7_Witness ==
  /\ Running
  /\ Top.fn = "clear_frame"
  /\ trace # <<>>
  /\ LastEv = Ev("cmd", "MASTER_ACTIVATION", <<>>, 0, OK)
  /\ regs["DISPLAY_UPDATE_CONTROL_2"] = <<247>>

\* C8: no running function holds an array of a full frame's size, and a
\* completed clear_frame has streamed 0xFF pixel_count times for each plane.
C8_NoFrameSizedBuffer ==
  /\ \A i \in 1..Len(stack) : \A a \in Locals(stack[i].fn) : a.len < pixel_count
  /\ Finished("clear_frame", "Ok") =>
       /\ pixel_count = 58080
       /\ \E i \in 1..Len(trace) - 3 :
            /\ trace[i] = Ev("cmd", "WRITE_RAM_BW", <<>>, 0, OK)
            /\ trace[i + 1] = Ev("fill", "-", <<255>>, pixel_count, OK)
            /\ trace[i + 2] = Ev("cmd", "WRITE_RAM_RED", <<>>, 0, OK)
            /\ trace[i + 3] = Ev("fill", "-", <<255>>, pixel_count, OK)

\* C9: background_color() right after set_background_color(c) returns c, and
\* neither accessor puts anything on the bus.
C9_BackgroundColorRoundTrip ==
  /\ (op = "background_color" /\ args.color # "-") => result.val = args.color
  /\ op \in {"set_background_color", "background_color"} =>
       (trace = <<>> /\ stack = <<>>)

C9_Witness ==
  /\ op = "background_color"
  /\ args.color = "White"
  /\ result.val = "White"

\* C10 as stated: the X window is [0, WIDTH-1] and the Y window has the
\* bounds 0 and HEIGHT-1.
C10_WindowIsPanelExtent ==
  /\ regs["SET_RAM_X_START_END"] # <<>> =>
       Window(regs["SET_RAM_X_START_END"]) = [start |-> 0, end |-> WIDTH - 1]
  /\ regs["SET_RAM_Y_START_END"] # <<>> =>
       {Window(regs["SET_RAM_Y_START_END"]).start,
        Window(regs["SET_RAM_Y_START_END"]).end} = {0, HEIGHT - 1}

\* C10 amended: the X window is [0, WIDTH-1]; the Y window runs from 687 down
\* to 0, which contains the panel's HEIGHT rows.
C10_WindowCoversPanel ==
  /\ regs["SET_RAM_X_START_END"] # <<>> =>
       Window(regs["SET_RAM_X_START_END"]) = [start |-> 0, end |-> WIDTH - 1]
  /\ regs["SET_RAM_Y_START_END"] # <<>> =>
       /\ Window(regs["SET_RAM_Y_START_END"]) = [start |-> 687, end |-> 0]
       /\ Window(regs["SET_RAM_Y_START_END"]).start >= HEIGHT - 1

C10_Witness ==
  /\ Finished("new", "Ok")
  /\ regs["SET_RAM_X_START_END"] = <<0, 0, 111, 3>>
  /\ regs["SET_RAM_Y_START_END"] = <<175, 2, 0, 0>>

(* ---------------- expected bus events ---------------- *)
EvReset == Ev("reset", "-", <<>>, 2, OK)
EvWait == Ev("wait", "-", <<>>, 0, OK)
EvCmd(c) == Ev("cmd", c, <<>>, 0, OK)
EvData(c, d) == Ev("data", c, d, 0, OK)
EvCmdData(c, d) == <<EvCmd(c), EvData(c, d)>>
BusyCausing(e) ==
  /\ e.r = OK
  /\ \/ e.k = "reset"
     \/ e.k = "cmd" /\ e.c \in {"SW_RESET", "MASTER_ACTIVATION"}
RamWrite(e) == e.k = "cmd" /\ e.c \in {"WRITE_RAM_BW", "WRITE_RAM_RED"}
RamStream(e) ==
  \/ e.k = "fill"
  \/ e.k = "data" /\ e.c \in {"WRITE_RAM_BW", "WRITE_RAM_RED"}

\* C12: width() is 880 and height() is 528 in every state, the frame is a
\* whole number of bytes (58080) within 32 bits, and the colour right after
\* a successful new is Black.
C12_GeometryAndDefault ==
  /\ width = 880 /\ height = 528
  /\ (width * height) % 8 = 0
  /\ (width * height) \div 8 = 58080
  /\ width * height < 2147483647
  /\ op = "width" => args.num = 880
  /\ op = "height" => args.num = 528
  /\ Finished("new", "Ok") => (background_color = "Black" /\ constructed)

C12_Witness ==
  /\ op = "width"
  /\ args.num = 880
  /\ asleep
  /\ color = "White"

\* C13 as stated: a successful init emits reset, wait, SW_RESET, wait, the
\* two auto-write commands, the configuration commands, the activation with
\* its wait and the two counter resets, with no busy-wait after either
\* auto-write command.
C13_InitTraceAsListed ==
  (stack = <<>> /\ op \in {"new", "wake_up"} /\ result.tag = "Ok") =>
    trace = <<EvReset, EvWait, EvCmd("SW_RESET"), EvWait>>
            \o EvCmdData("AUTO_WRITE_RED", <<247>>)
            \o EvCmdData("AUTO_WRITE_BW", <<247>>)
            \o EvCmdData("SOFT_START", <<174, 199, 195, 192, 64>>)
            \o EvCmdData("DRIVER_OUTPUT_CONTROL", <<175, 2, 1>>)
            \o EvCmdData("DATA_ENTRY", <<1>>)
            \o EvCmdData("SET_RAM_X_START_END", <<0, 0, 111, 3>>)
            \o EvCmdData("SET_RAM_Y_START_END", <<175, 2, 0, 0>>)
            \o EvCmdData("VBD_CONTROL", <<5>>)
            \o EvCmdData("TEMPERATURE_SENSOR_CONTROL", <<128>>)
            \o EvCmdData("DISPLAY_UPDATE_CONTROL_2", <<177>>)
            \o <<EvCmd("MASTER_ACTIVATION"), EvWait>>
            \o EvCmdData("SET_RAM_X_AC", <<0, 0>>)
            \o EvCmdData("SET_RAM_Y_AC", <<0, 0>>)

\* C13 amended: the same trace with a busy-wait after AUTO_WRITE_RED and
\* another after AUTO_WRITE_BW.
C13_InitTraceWithAutoWriteWaits ==
  (stack = <<>> /\ op \in {"new", "wake_up"} /\ result.tag = "Ok") =>
    trace = <<EvReset, EvWait, EvCmd("SW_RESET"), EvWait>>
            \o EvCmdData("AUTO_WRITE_RED", <<247>>) \o <<EvWait>>
            \o EvCmdData("AUTO_WRITE_BW", <<247>>) \o <<EvWait>>
            \o EvCmdData("SOFT_START", <<174, 199, 195, 192, 64>>)
            \o EvCmdData("DRIVER_OUTPUT_CONTROL", <<175, 2, 1>>)
            \o EvCmdData("DATA_ENTRY", <<1>>)
            \o EvCmdData("SET_RAM_X_START_END", <<0, 0, 111, 3>>)
            \o EvCmdData("SET_RAM_Y_START_END", <<175, 2, 0, 0>>)
            \o EvCmdData("VBD_CONTROL", <<5>>)
            \o EvCmdData("TEMPERATURE_SENSOR_CONTROL", <<128>>)
            \o EvCmdData("DISPLAY_UPDATE_CONTROL_2", <<177>>)
            \o <<EvCmd("MASTER_ACTIVATION"), EvWait>>
            \o EvCmdData("SET_RAM_X_AC", <<0, 0>>)
            \o EvCmdData("SET_RAM_Y_AC", <<0, 0>>)

C13_Witness ==
  /\ Finished("wake_up", "Ok")
  /\ Len(trace) = 32
  /\ trace[7] = EvWait
  /\ trace[10] = EvWait

\* C14: a successful update_frame(buffer) emits wait, SET_RAM_Y_AC [00 00],
\* WRITE_RAM_BW with the caller's bytes, DISPLAY_UPDATE_CONTROL_2 [F7]; no
\* update_frame sends MASTER_ACTIVATION or WRITE_RAM_RED, and the caller's
\* buffer is the same after the call as before.
C14_UpdateFrameTrace ==
  [][/\ (stack' = <<>> /\ op' = "update_frame" /\ result'.tag = "Ok") =>
          trace' = <<EvWait>>
                   \o EvCmdData("SET_RAM_Y_AC", <<0, 0>>)
                   \o EvCmdData("WRITE_RAM_BW", buffer')
                   \o EvCmdData("DISPLAY_UPDATE_CONTROL_2", <<247>>)
     /\ op' = "update_frame" =>
          \A i \in 1..Len(trace') :
            trace'[i].c \notin {"MASTER_ACTIVATION", "WRITE_RAM_RED"}
     /\ (op = "update_frame" /\ Running) => buffer' = buffer]_vars

C14_Witness ==
  /\ Finished("update_frame", "Ok")
  /\ Len(buffer) = 2
  /\ trace[5] = EvData("WRITE_RAM_BW", <<90, 255>>)

\* C11: under the fairness of LiveSpec every running call returns, and while
\* the raw pin shows busy a call that stands at a busy-wait neither advances,
\* returns nor puts anything on the bus.
C11_BlockingCallsTerminate ==
  /\ Running ~> ~Running
  /\ [][(AtInstr /\ Cur.k = "wait" /\ busyPin = "high")
          => (stack' = stack /\ trace' = trace /\ result' = result)]_vars

C11_Witness ==
  /\ AtInstr
  /\ Cur.k = "wait"
  /\ busyPin = "high"
  /\ op = "display_frame"
  /\ trace = <<EvCmd("MASTER_ACTIVATION")>>

\* C15 as stated: the X counter equals the start of the X window and the Y
\* counter equals the start of the Y window.
C15_CountersAtWindowStart ==
  /\ (regs["SET_RAM_X_AC"] # <<>> /\ regs["SET_RAM_X_START_END"] # <<>>) =>
       LE16(regs["SET_RAM_X_AC"][1], regs["SET_RAM_X_AC"][2])
         = Window(regs["SET_RAM_X_START_END"]).start
  /\ (regs["SET_RAM_Y_AC"] # <<>> /\ regs["SET_RAM_Y_START_END"] # <<>>) =>
       LE16(regs["SET_RAM_Y_AC"][1], regs["SET_RAM_Y_AC"][2])
         = Window(regs["SET_RAM_Y_START_END"]).start

\* C15 amended: the X counter equals the start of the X window; the Y counter
\* is 0, the end bound of the Y window, whose start is 687.
C15_CountersAtAddressZero ==
  /\ (regs["SET_RAM_X_AC"] # <<>> /\ regs["SET_RAM_X_START_END"] # <<>>) =>
       LE16(regs["SET_RAM_X_AC"][1], regs["SET_RAM_X_AC"][2])
         = Window(regs["SET_RAM_X_START_END"]).start
  /\ (regs["SET_RAM_Y_AC"] # <<>> /\ regs["SET_RAM_Y_START_END"] # <<>>) =>
       /\ LE16(regs["SET_RAM_Y_AC"][1], regs["SET_RAM_Y_AC"][2]) = 0
       /\ Window(regs["SET_RAM_Y_START_END"]).end = 0
       /\ Window(regs["SET_RAM_Y_START_END"]).start = 687

C15_Witness ==
  /\ Finished("update_frame", "Ok")
  /\ regs["SET_RAM_X_AC"] = <<0, 0>>
  /\ regs["SET_RAM_Y_AC"] = <<0, 0>>
  /\ regs["SET_RAM_Y_START_END"] = <<175, 2, 0, 0>>

\* C16: whenever display_frame issues MASTER_ACTIVATION, the value last
\* written to DISPLAY_UPDATE_CONTROL_2 is the full-refresh mask 0xF7.
C16_DisplayFrameActivatesFullRefresh ==
  [][(IssuesMasterActivation /\ Top.fn = "display_frame")
       => regs["DISPLAY_UPDATE_CONTROL_2"] = <<247>>]_vars

\* C17: in the bus trace of every operation a hardware reset, SW_RESET or
\* MASTER_ACTIVATION is directly followed by a busy-wait, and no operation
\* returns with such a step as its last bus event.
C17_BusyPollingDiscipline ==
  /\ \A i \in 1..(Len(trace) - 1) :
       BusyCausing(trace[i]) => trace[i + 1].k = "wait"
  /\ (stack = <<>> /\ trace # <<>>) => ~BusyCausing(LastEv)

C17_Witness ==
  /\ Finished("display_frame", "Ok")
  /\ trace = <<EvCmd("MASTER_ACTIVATION"), EvWait>>
  /\ framePair = NoPair

\* C18: a successful sleep emits wait, DEEP_SLEEP [01] and nothing else; the
\* DEEP_SLEEP command directly follows a busy-wait, and sleep sends no reset,
\* RAM write or MASTER_ACTIVATION.
C18_SleepTrace ==
  /\ Finished("sleep", "Ok") =>
       trace = <<EvWait>> \o EvCmdData("DEEP_SLEEP", <<1>>)
  /\ op = "sleep" =>
       \A i \in 1..Len(trace) :
         /\ trace[i].k \in {"wait", "cmd", "data"}
         /\ trace[i].c \in {"-", "DEEP_SLEEP"}
         /\ (trace[i].k = "cmd") => (i > 1 /\ trace[i - 1] = EvWait)

C18_Witness ==
  /\ Finished("sleep", "Ok")
  /\ asleep
  /\ Len(trace) = 3

\* C19: every WRITE_RAM_BW or WRITE_RAM_RED command is preceded by a
\* SET_RAM_Y_AC [00 00] with no RAM data stream between the two.
C19_EveryStreamStartsAtResetCursor ==
  \A i \in 1..Len(trace) :
    RamWrite(trace[i]) =>
      \E j \in 1..(i - 1) :
        /\ trace[j] = EvData("SET_RAM_Y_AC", <<0, 0>>)
        /\ \A k \in (j + 1)..(i - 1) : ~RamStream(trace[k])

\* C20: only set_background_color changes the stored colour, and the bus
\* trace of clear_frame is the same 0xFF fill whatever the colour is.
C20_ColorChangesOnlyBySetter ==
  [][/\ color' # color => op' = "set_background_color"
     /\ \A i \in 1..Len(trace') :
          trace'[i].k = "fill" => trace'[i].d = <<255>>
     /\ (stack' = <<>> /\ op' = "clear_frame" /\ result'.tag = "Ok") =>
          trace' = <<EvWait>>
                   \o EvCmdData("SET_RAM_Y_AC", <<0, 0>>)
                   \o <<EvCmd("WRITE_RAM_BW"),
                        Ev("fill", "-", <<255>>, 58080, OK),
                        EvCmd("WRITE_RAM_RED"),
                        Ev("fill", "-", <<255>>, 58080, OK)>>
                   \o EvCmdData("DISPLAY_UPDATE_CONTROL_2", <<247>>)
                   \o <<EvCmd("MASTER_ACTIVATION"), EvWait>>]_vars

C20_Witness ==
  /\ Finished("clear_frame", "Ok")
  /\ color = "White"
  /\ trace[5] = Ev("fill", "-", <<255>>, 58080, OK)

====
